---- MODULE Spec2Model ----
(***************************************************************************)
(* Model of the chronology pipeline of project-stockholm:                  *)
(*   backend/src/chronology_generator.py  (sort_events, analyze_chronology)*)
(*   backend/src/llm_processor.py         (LLMProcessor, normalizer)       *)
(*   backend/routers/chronology.py        (POST /chronology/generate)      *)
(*                                                                         *)
(* Encoding of Python values.  A str is the sequence of its code points    *)
(* (naturals); None is the one-element sequence << -1 >>, which is no str. *)
(* A dict is a function whose DOMAIN is the set of keys it has, so that a  *)
(* missing key (d[k] raises KeyError, d.get(k, default) yields default) is *)
(* told apart from a key bound to None.  A raised exception is the record  *)
(* [exc |-> <type name>].                                                  *)
(***************************************************************************)
EXTENDS Integers, Sequences, FiniteSets, TLC

\* ------------------------------------------------------------------ bounds
MaxEvents == 3      \* longest event list handed to a function under test
MaxDocs == 2        \* documents in one request
MaxItems == 2       \* items in one JSON array returned by the language model

\* ------------------------------------------------------- Python primitives
None == << -1 >>
EmptyStr == << >>

Raise(t) == [exc |-> t]
Raised(r) == "exc" \in DOMAIN r

\* bool(v) for a str or None
Truthy(v) == v # None /\ v # EmptyStr

\* d.get(k, default)
Get(d, k, default) == IF k \in DOMAIN d THEN d[k] ELSE default

\* a < b on str: lexicographic on code points, a proper prefix is smaller
RECURSIVE StrLT(_, _)
StrLT(a, b) ==
    IF b = << >> THEN FALSE
    ELSE IF a = << >> THEN TRUE
    ELSE IF Head(a) # Head(b) THEN Head(a) < Head(b)
    ELSE StrLT(Tail(a), Tail(b))

\* code points that occur
ChSpace == 32
ChComma == 44
ChDash == 45
Ch0 == 48

IsDigit(c) == c >= Ch0 /\ c <= Ch0 + 9

\* s.strip() (whitespace is the space character here)
RECURSIVE LStrip(_)
LStrip(s) == IF s # << >> /\ Head(s) = ChSpace THEN LStrip(Tail(s)) ELSE s

RECURSIVE RStrip(_)
RStrip(s) ==
    IF s # << >> /\ s[Len(s)] = ChSpace THEN RStrip(SubSeq(s, 1, Len(s) - 1)) ELSE s

Strip(s) == RStrip(LStrip(s))

\* sep.join(parts)
RECURSIVE Join(_, _)
Join(sep, parts) ==
    IF parts = << >> THEN << >>
    ELSE IF Len(parts) = 1 THEN parts[1]
    ELSE parts[1] \o sep \o Join(sep, Tail(parts))

\* ------------------------------------------------------------------ dates
\* f"{n:02d}" and f"{n:04d}"
Pad2(n) == << Ch0 + ((n \div 10) % 10), Ch0 + (n % 10) >>
Pad4(n) == << Ch0 + ((n \div 1000) % 10), Ch0 + ((n \div 100) % 10) >> \o Pad2(n % 100)

\* datetime(y, m, d).strftime("%Y-%m-%d")
strftime(y, m, d) == Pad4(y) \o << ChDash >> \o Pad2(m) \o << ChDash >> \o Pad2(d)

IsLeap(y) == (y % 4) = 0 /\ ((y % 100) # 0 \/ (y % 400) = 0)

DaysInMonth(y, m) ==
    IF m = 2 THEN (IF IsLeap(y) THEN 29 ELSE 28)
    ELSE IF m \in {4, 6, 9, 11} THEN 30 ELSE 31

RECURSIVE DaysBeforeMonth(_, _)
DaysBeforeMonth(y, m) ==
    IF m = 1 THEN 0 ELSE DaysBeforeMonth(y, m - 1) + DaysInMonth(y, m - 1)

\* datetime.toordinal(): days since 0001-01-01, proleptic Gregorian
YmdToOrd(y, m, d) ==
    (365 * (y - 1)) + ((y - 1) \div 4) - ((y - 1) \div 100) + ((y - 1) \div 400)
        + DaysBeforeMonth(y, m) + d

ToOrdinal(dt) == YmdToOrd(dt.year, dt.month, dt.day)

\* int(s[i..j]) for a run of digits
RECURSIVE NumFrom(_, _, _, _)
NumFrom(s, k, j, acc) ==
    IF k > j THEN acc ELSE NumFrom(s, k + 1, j, (acc * 10) + (s[k] - Ch0))

Num(s, i, j) == NumFrom(s, i, j, 0)

\* datetime(y, m, d): the datetime, or ValueError for a date that does not exist
DateOf(y, m, d) ==
    IF y >= 1 /\ m \in 1..12 /\ d >= 1 /\ d <= DaysInMonth(y, m)
    THEN [year |-> y, month |-> m, day |-> d]
    ELSE Raise("ValueError")

\* datetime.strptime(s, "%Y-%m-%d") on the fixed-width form the pipeline
\* produces: the datetime, or ValueError
strptime(s) ==
    IF /\ Len(s) = 10
       /\ s[5] = ChDash /\ s[8] = ChDash
       /\ \A i \in {1, 2, 3, 4, 6, 7, 9, 10} : IsDigit(s[i])
    THEN DateOf(Num(s, 1, 4), Num(s, 6, 7), Num(s, 9, 10))
    ELSE Raise("ValueError")

\* ------------------------------------------------------------ sort_events
NullDateKey == strftime(9999, 12, 31)

sort_key(event) ==
    LET date == Get(event, "date", None)
    IN << IF date # None THEN date ELSE NullDateKey,
          Get(event, "source_document", EmptyStr) >>

\* tuple comparison k1 < k2
KeyLT(k1, k2) ==
    \/ StrLT(k1[1], k2[1])
    \/ k1[1] = k2[1] /\ StrLT(k1[2], k2[2])

\* variant: an element goes before the elements whose key equals its own
RECURSIVE InsertByKey_unstable(_, _)
InsertByKey_unstable(sorted, e) ==
    IF sorted = << >> THEN << e >>
    ELSE IF ~KeyLT(sort_key(Head(sorted)), sort_key(e))
         THEN << e >> \o sorted
         ELSE << Head(sorted) >> \o InsertByKey_unstable(Tail(sorted), e)

\* sorted(events, key=sort_key): stable, so an element goes after every
\* element whose key is not greater than its own
RECURSIVE InsertByKey(_, _)
InsertByKey(sorted, e) ==
    IF sorted = << >> THEN << e >>
    ELSE IF KeyLT(sort_key(e), sort_key(Head(sorted)))
         THEN << e >> \o sorted
         ELSE << Head(sorted) >> \o InsertByKey(Tail(sorted), e)

RECURSIVE SortFrom(_, _)
SortFrom(events, acc) ==
    IF events = << >> THEN acc
    ELSE SortFrom(Tail(events), InsertByKey(acc, Head(events)))

sort_events(events) == SortFrom(events, << >>)

\* ----------------------------------------------------- analyze_chronology
GapThreshold == 30

\* f"Gap of {gap_days} days between events on {current['date']} and {next_event['date']}"
GapText(gap_days, d1, d2) ==
    [text |-> "Gap of {} days between events on {} and {}",
     gap_days |-> gap_days, first |-> d1, second |-> d2]

\* f"Found {n} events with missing dates. Consider reviewing source documents."
MissingDatesText(n) ==
    [text |-> "Found {} events with missing dates. Consider reviewing source documents.",
     count |-> n]

\* f"Key parties involved: {joined}"
KeyPartiesText(joined) == [text |-> "Key parties involved: {}", parties |-> joined]

\* variant: a gap of exactly the threshold is reported too
GapEntry_atleast(gap_days, d1, d2) ==
    IF gap_days >= GapThreshold
    THEN [emit |-> << GapText(gap_days, d1, d2) >>]
    ELSE [emit |-> << >>]

\* if gap_days > 30: analysis["potential_gaps"].append(...)
GapEntry(gap_days, d1, d2) ==
    IF gap_days > GapThreshold
    THEN [emit |-> << GapText(gap_days, d1, d2) >>]
    ELSE [emit |-> << >>]

\* the body of `if current["date"] and next_event["date"]`, given what the two
\* strptime calls produced
GapBetween(current_date, next_date, d1, d2) ==
    IF Raised(current_date) THEN current_date
    ELSE IF Raised(next_date) THEN next_date
    ELSE GapEntry(ToOrdinal(next_date) - ToOrdinal(current_date), d1, d2)

\* one turn of the gap loop: the entries it appends, or the exception it raises
GapStep(current, next_event) ==
    IF "date" \notin DOMAIN current THEN Raise("KeyError")
    ELSE IF ~Truthy(current["date"]) THEN [emit |-> << >>]
    ELSE IF "date" \notin DOMAIN next_event THEN Raise("KeyError")
    ELSE IF ~Truthy(next_event["date"]) THEN [emit |-> << >>]
    ELSE GapBetween(strptime(current["date"]), strptime(next_event["date"]),
                    current["date"], next_event["date"])

\* for i in range(len(sorted_events) - 1)
RECURSIVE GapLoop(_, _, _)
RECURSIVE GapNext(_, _, _, _)
GapNext(sorted_events, i, gaps, r) ==
    IF Raised(r) THEN r ELSE GapLoop(sorted_events, i + 1, gaps \o r.emit)

GapLoop(sorted_events, i, gaps) ==
    IF i >= Len(sorted_events) THEN [emit |-> gaps]
    ELSE GapNext(sorted_events, i, gaps, GapStep(sorted_events[i], sorted_events[i + 1]))

\* [e for e in events if not e["date"]]
MissingDates(events) ==
    IF \E i \in DOMAIN events : "date" \notin DOMAIN events[i]
    THEN Raise("KeyError")
    ELSE [count |-> Cardinality({i \in DOMAIN events : ~Truthy(events[i]["date"])})]

\* all_parties.update(event.get("parties", [])) over all events
AllParties(events) ==
    UNION { { Get(events[i], "parties", << >>)[j] :
                j \in DOMAIN Get(events[i], "parties", << >>) } :
            i \in DOMAIN events }

\* variant: the set is listed without sorting (here: greatest first)
RECURSIVE SortedStrs_unsorted(_)
SortedStrs_unsorted(S) ==
    IF S = {} THEN << >>
    ELSE LET greatest == CHOOSE x \in S : \A y \in S : ~StrLT(x, y)
         IN << greatest >> \o SortedStrs_unsorted(S \ {greatest})

\* sorted(all_parties) on a set of str
RECURSIVE SortedStrs(_)
SortedStrs(S) ==
    IF S = {} THEN << >>
    ELSE LET least == CHOOSE x \in S : \A y \in S : ~StrLT(y, x)
         IN << least >> \o SortedStrs(S \ {least})

\* the dict analyze_chronology returns, from what its three passes found
Analysis(gaps, missing_dates, all_parties) ==
    IF Raised(gaps) THEN gaps
    ELSE IF Raised(missing_dates) THEN missing_dates
    ELSE [key_observations |->
             IF all_parties # {}
             THEN << KeyPartiesText(Join(<< ChComma, ChSpace >>, SortedStrs(all_parties))) >>
             ELSE << >>,
          potential_gaps |-> gaps.emit,
          recommendations |->
             IF missing_dates.count > 0
             THEN << MissingDatesText(missing_dates.count) >>
             ELSE << >>]

analyze_chronology(events) ==
    Analysis(GapLoop(sort_events(events), 1, << >>),
             MissingDates(events),
             AllParties(events))

\* ------------------------------------------------------------ JSON values
\* What json.loads returns, tagged with its Python type.
JStr(s) == [str |-> s]
JNull == [null |-> TRUE]
JNum(n) == [num |-> n]
JList(xs) == [list |-> xs]
JObj(d) == [obj |-> d]

IsJStr(v) == "str" \in DOMAIN v
IsJList(v) == "list" \in DOMAIN v
IsJObj(v) == "obj" \in DOMAIN v

StrNone == << 78, 111, 110, 101 >>      \* "None"

\* f"{n}" for a small non-negative int
RECURSIVE Digits(_)
Digits(n) == IF n < 10 THEN << Ch0 + n >> ELSE Digits(n \div 10) \o << Ch0 + (n % 10) >>

\* str(v) for the scalar values a record field holds in this model
PyStr(v) ==
    IF IsJStr(v) THEN v.str
    ELSE IF "num" \in DOMAIN v THEN Digits(v.num)
    ELSE StrNone

\* s.split(sep) for a one-character separator
RECURSIVE SplitFrom(_, _, _)
SplitFrom(s, sep, cur) ==
    IF s = << >> THEN << cur >>
    ELSE IF Head(s) = sep THEN << cur >> \o SplitFrom(Tail(s), sep, << >>)
    ELSE SplitFrom(Tail(s), sep, Append(cur, Head(s)))

Split(s, sep) == SplitFrom(s, sep, << >>)

\* d[k] = v and d.pop(k) on a dict
Put(d, k, v) == [x \in DOMAIN d \cup {k} |-> IF x = k THEN v ELSE d[x]]
Pop(d, k) == [x \in DOMAIN d \ {k} |-> d[x]]

\* ---------------------------------------- normalizer (llm_processor.py)
\* dateparser.parse(date_str, settings=...): the external parser, of which
\* only this is used: it reads the ISO form; for every other date text of
\* the input sets below the branch taken is the one where it finds nothing
ParsedOrNone(r) == IF Raised(r) THEN [none |-> TRUE] ELSE r

dateparser_parse(date_str) == ParsedOrNone(strptime(date_str))

\* variant: the fields are written without zero padding
FormatParsed_unpadded(parsed_date) ==
    IF "none" \notin DOMAIN parsed_date
    THEN Digits(parsed_date.year) \o << ChDash >> \o Digits(parsed_date.month)
            \o << ChDash >> \o Digits(parsed_date.day)
    ELSE None

\* if parsed_date: return parsed_date.strftime("%Y-%m-%d"), else None
FormatParsed(parsed_date) ==
    IF "none" \notin DOMAIN parsed_date
    THEN strftime(parsed_date.year, parsed_date.month, parsed_date.day)
    ELSE None

parse_date(date_str) ==
    IF date_str = EmptyStr THEN None
    ELSE FormatParsed(dateparser_parse(date_str))

\* [p.strip() for p in parties.split(",") if p.strip()]
RECURSIVE StrippedNonEmpty(_)
StrippedNonEmpty(pieces) ==
    IF pieces = << >> THEN << >>
    ELSE (IF Strip(Head(pieces)) # EmptyStr THEN << Strip(Head(pieces)) >> ELSE << >>)
         \o StrippedNonEmpty(Tail(pieces))

\* a JSON list kept as it is (the input sets below hold lists of strings only)
PlainList(xs) == [i \in DOMAIN xs |-> xs[i].str]

\* extract_event_details of llm_processor.py: the definition in force inside
\* LLMProcessor (it rebinds the name imported from chronology_generator)
\* the isinstance chain on the parties value
NormalizeParties(parties) ==
    IF IsJStr(parties) THEN StrippedNonEmpty(Split(parties.str, ChComma))
    ELSE IF IsJList(parties) THEN PlainList(parties.list)
    ELSE << >>

extract_event_details(event) ==
    [description |-> Strip(PyStr(Get(event, "description", JStr(EmptyStr)))),
     date |-> parse_date(PyStr(Get(event, "date", JStr(EmptyStr)))),
     source_document |->
        Strip(PyStr(Get(event, "source_document", Get(event, "source", JStr(EmptyStr))))),
     parties |->
        NormalizeParties(Get(event, "parties", Get(event, "participants", JList(<< >>))))]

\* except Exception (line 325): what every failure inside the try returns
DeadEvent ==
    [description |-> EmptyStr, date |-> None, source_document |-> EmptyStr,
     parties |-> << >>]

\* extract_event_details on any JSON value: event.get on a value that is no
\* dict raises AttributeError inside the try
extract_event_details_guarded(value) ==
    IF IsJObj(value) THEN extract_event_details(value.obj) ELSE DeadEvent

\* ------------------------------------ normalizer (chronology_generator.py)
ChSlash == 47
ChUpperA == 65
ChUpperZ == 90
ChLowerA == 97

\* s.lower() on ASCII letters
Lower(s) ==
    [i \in DOMAIN s |->
        IF s[i] >= ChUpperA /\ s[i] <= ChUpperZ THEN s[i] + (ChLowerA - ChUpperA) ELSE s[i]]

\* ('null', 'none', '', 'n/a')
NullWords ==
    { << 110, 117, 108, 108 >>, << 110, 111, 110, 101 >>, EmptyStr, << 110, ChSlash, 97 >> }

\* bool(v) of a JSON value
JTruthy(v) ==
    IF IsJStr(v) THEN v.str # EmptyStr
    ELSE IF "num" \in DOMAIN v THEN v.num # 0
    ELSE IF IsJList(v) THEN v.list # << >>
    ELSE IF IsJObj(v) THEN DOMAIN v.obj # {}
    ELSE FALSE

\* if not date_str or str(date_str).lower() in (...): return None
ShortCircuits(date_str) == ~JTruthy(date_str) \/ Lower(PyStr(date_str)) \in NullWords

AllDigits(s) == s # << >> /\ \A i \in DOMAIN s : IsDigit(s[i])

\* datetime.strptime(s, fmt) for the formats made of %Y, %m and %d with one
\* separator; order names the places of year, month and day
ReadFields(pieces, order) ==
    IF /\ Len(pieces) = 3
       /\ \A i \in 1..3 : AllDigits(pieces[i])
       /\ Len(pieces[order.y]) = 4
       /\ Len(pieces[order.m]) <= 2
       /\ Len(pieces[order.d]) <= 2
    THEN DateOf(Num(pieces[order.y], 1, 4),
                Num(pieces[order.m], 1, Len(pieces[order.m])),
                Num(pieces[order.d], 1, Len(pieces[order.d])))
    ELSE Raise("ValueError")

\* the formats list, in its order: what datetime.strptime(s, fmt) gives for
\* each; the month-name formats (%B, %b) read no text of the input sets
\* below, which hold no month names, and "%Y%m%d" is taken on eight digits
Formats(s) ==
    << ReadFields(Split(s, ChDash), [y |-> 1, m |-> 2, d |-> 3]),     \* %Y-%m-%d
       ReadFields(Split(s, ChSlash), [y |-> 1, m |-> 2, d |-> 3]),    \* %Y/%m/%d
       ReadFields(Split(s, ChSlash), [y |-> 3, m |-> 2, d |-> 1]),    \* %d/%m/%Y
       ReadFields(Split(s, ChSlash), [y |-> 3, m |-> 1, d |-> 2]),    \* %m/%d/%Y
       ReadFields(Split(s, ChDash), [y |-> 3, m |-> 2, d |-> 1]),     \* %d-%m-%Y
       ReadFields(Split(s, ChDash), [y |-> 3, m |-> 1, d |-> 2]),     \* %m-%d-%Y
       IF Len(s) = 8 /\ AllDigits(s)                                  \* %Y%m%d
       THEN DateOf(Num(s, 1, 4), Num(s, 5, 6), Num(s, 7, 8))
       ELSE Raise("ValueError") >>

\* re.findall(r'(\d{4})|(\d{1,2})', s) with int(...) of each match: leftmost
\* matches, four digits before two before one
RECURSIVE FindNumbers(_)
FindNumbers(s) ==
    IF s = << >> THEN << >>
    ELSE IF ~IsDigit(Head(s)) THEN FindNumbers(Tail(s))
    ELSE IF Len(s) >= 4 /\ \A i \in 2..4 : IsDigit(s[i])
    THEN << Num(s, 1, 4) >> \o FindNumbers(SubSeq(s, 5, Len(s)))
    ELSE IF Len(s) >= 2 /\ IsDigit(s[2])
    THEN << Num(s, 1, 2) >> \o FindNumbers(SubSeq(s, 3, Len(s)))
    ELSE << Num(s, 1, 1) >> \o FindNumbers(Tail(s))

\* the if / elif / elif chain on one number (0 stands for None: no role
\* ever holds 0)
AssignPart(num, ymd) ==
    IF ymd.year = 0 /\ num >= 1900 /\ num <= 2100 THEN [ymd EXCEPT !.year = num]
    ELSE IF ymd.month = 0 /\ num >= 1 /\ num <= 12 THEN [ymd EXCEPT !.month = num]
    ELSE IF ymd.day = 0 /\ num >= 1 /\ num <= 31 THEN [ymd EXCEPT !.day = num]
    ELSE ymd

RECURSIVE AssignParts(_, _)
AssignParts(nums, ymd) ==
    IF nums = << >> THEN ymd ELSE AssignParts(Tail(nums), AssignPart(Head(nums), ymd))

\* if year and month and day: return f"{year:04d}-{month:02d}-{day:02d}"
FromParts(ymd) ==
    IF ymd.year # 0 /\ ymd.month # 0 /\ ymd.day # 0
    THEN strftime(ymd.year, ymd.month, ymd.day)
    ELSE None

\* if date_parts and len(date_parts) >= 3: ...
DigitFallback(date_parts) ==
    IF Len(date_parts) >= 3
    THEN FromParts(AssignParts(date_parts, [year |-> 0, month |-> 0, day |-> 0]))
    ELSE None

\* for fmt in formats: the first format that reads s, else the fallback
RECURSIVE TryFormats(_, _)
TryFormats(results, s) ==
    IF results = << >> THEN DigitFallback(FindNumbers(s))
    ELSE IF Raised(Head(results)) THEN TryFormats(Tail(results), s)
    ELSE FormatParsed(Head(results))

\* if parsed_date: return its strftime; else the formats, then the fallback
AfterParser(parsed_date, s) ==
    IF "none" \notin DOMAIN parsed_date THEN FormatParsed(parsed_date)
    ELSE TryFormats(Formats(s), s)

\* standardize_date of a JSON value (event.get("date"): null when missing)
standardize_date(date_str) ==
    IF ShortCircuits(date_str) THEN None
    ELSE AfterParser(dateparser_parse(Strip(PyStr(date_str))), Strip(PyStr(date_str)))

StrUnknown == << 85, 110, 107, 110, 111, 119, 110 >>    \* "Unknown"

\* a str or null field value taken over as it is
PyVal(v) == IF IsJStr(v) THEN v.str ELSE None

\* event.get("description", "").strip(): only a str has strip
StrippedDescription(description) ==
    IF IsJStr(description) THEN [str |-> Strip(description.str)]
    ELSE Raise("AttributeError")

\* set(p.strip() for p in parties): a str is iterated character by
\* character, a list element that is no str has no strip, and anything
\* else in the input sets below (null, a number) is not iterable
StrippedSet(parties) ==
    IF IsJStr(parties)
    THEN [set |-> { Strip(<< parties.str[i] >>) : i \in DOMAIN parties.str }]
    ELSE IF IsJList(parties)
    THEN (IF \A i \in DOMAIN parties.list : IsJStr(parties.list[i])
          THEN [set |-> { Strip(parties.list[i].str) : i \in DOMAIN parties.list }]
          ELSE Raise("AttributeError"))
    ELSE Raise("TypeError")

\* list(a_set): the elements in an order the build chooses
ListOfSet(S) ==
    { q \in [1..Cardinality(S) -> S] :
        \A i, j \in 1..Cardinality(S) : i # j => q[i] # q[j] }

\* the dict literal of extract_event_details, its values evaluated in order
StandardEvents(event, description, stripped) ==
    IF Raised(description) THEN { description }
    ELSE IF Raised(stripped) THEN { stripped }
    ELSE { [date |-> standardize_date(Get(event, "date", JNull)),
            description |-> description.str,
            parties |-> q,
            source_document |-> PyVal(Get(event, "source_document", JStr(StrUnknown))),
            ai_observations |-> PyVal(Get(event, "ai_observations", JStr(EmptyStr)))] :
           q \in ListOfSet(stripped.set) }

\* extract_event_details of chronology_generator.py on any JSON value: what
\* it may return or raise (event.get on a value that is no dict raises)
cg_extract_event_details(value) ==
    IF ~IsJObj(value) THEN { Raise("AttributeError") }
    ELSE StandardEvents(value.obj,
                        StrippedDescription(Get(value.obj, "description", JStr(EmptyStr))),
                        StrippedSet(Get(value.obj, "parties", JList(<< >>))))

\* ---------------------------------------- the language model's responses
\* What the code observes of one streamed response: whether the stream
\* raised, whether the text holds "[", "]", "{", "}", and what json.loads makes
\* of the slice the code cuts out (json.ok = FALSE: JSONDecodeError).
Resp(raises, lb, rb, lc, rc, ok, value) ==
    [raises |-> raises, lbracket |-> lb, rbracket |-> rb,
     lbrace |-> lc, rbrace |-> rc, json |-> [ok |-> ok, value |-> value]]

RespBadArray == Resp(FALSE, TRUE, TRUE, TRUE, TRUE, FALSE, << >>)       \* "[{...,]"
RespArray(items) == Resp(FALSE, TRUE, TRUE, TRUE, TRUE, TRUE, items)     \* "[{...}, ...]"
RespObject(item) == Resp(FALSE, FALSE, FALSE, TRUE, TRUE, TRUE, << item >>) \* "{...}"

\* ------------------------------------------ LLMProcessor.extract_events
\* the loop body over one item of the parsed array: the events it appends
\* if old in event: event[new] = event.pop(old)
RenameKey(event, old, new) ==
    IF old \in DOMAIN event THEN Put(Pop(event, old), new, event[old]) ELSE event

\* variant: every standardized event is appended
KeepDescribed_all(standardized_event) == << standardized_event >>

\* if standardized_event.get("description"): append
KeepDescribed(standardized_event) ==
    IF Truthy(standardized_event.description) THEN << standardized_event >> ELSE << >>

StandardizeItem(item, document_name) ==
    IF IsJObj(item)
    THEN KeepDescribed(extract_event_details(
             Put(RenameKey(RenameKey(item.obj, "event", "description"),
                           "source", "source_document"),
                 "source_document", JStr(document_name))))
    ELSE << >>

RECURSIVE StandardizeItems(_, _)
StandardizeItems(items, document_name) ==
    IF items = << >> THEN << >>
    ELSE StandardizeItem(Head(items), document_name)
         \o StandardizeItems(Tail(items), document_name)

extract_events(response, document_name) ==
    IF response.raises THEN << >>
    ELSE IF ~response.lbracket \/ ~response.rbracket THEN << >>
    ELSE IF ~response.json.ok THEN << >>
    ELSE StandardizeItems(response.json.value, document_name)

\* --------------------------------------- LLMProcessor.create_chronology
\* the loop over processed_events
RECURSIVE StandardizeProcessed(_)
StandardizeProcessed(items) ==
    IF items = << >> THEN << >>
    ELSE (IF IsJObj(Head(items))
          THEN KeepDescribed(extract_event_details(Head(items).obj))
          ELSE << >>)
         \o StandardizeProcessed(Tail(items))

\* return {"events": ev, "analysis": analysis}: the dict, or the exception
\* analyze_chronology raised
ChronologyOf(ev, analysis) ==
    IF Raised(analysis) THEN analysis
    ELSE [events |-> ev, analysis |-> analysis]

Chronology(ev) == ChronologyOf(ev, analyze_chronology(ev))

\* variant: the fallback hands back the sorted list instead of the list it got
Fallback_sorted(events) == Chronology(sort_events(events))

\* the fallback of the handlers at lines 213, 246 and 250; an exception raised
\* there is outside every try block and leaves create_chronology
Fallback(events) == Chronology(events)

\* except Exception (line 248) around the reasoning path
OrFallback(events, result) == IF Raised(result) THEN Fallback(events) ELSE result

\* lines 235-242: the standardized events, or the original ones if none
Reasoned(events, found) ==
    OrFallback(events, Chronology(IF found = << >> THEN events ELSE found))

create_chronology(events, response) ==
    IF \/ response.raises                                    \* except Exception
       \/ /\ ~(response.lbracket /\ response.rbracket)       \* no valid JSON found
          /\ ~(response.lbrace /\ response.rbrace)
       \/ ~response.json.ok                                  \* JSONDecodeError
    THEN Fallback(events)
    ELSE Reasoned(events, StandardizeProcessed(response.json.value))

\* ------------------------------------------------------------- rendering
ChNewline == 10
StrNA == << 78, 47, 65 >>               \* "N/A"

\* s.replace("\n", " ")
Flatten(s) == [i \in DOMAIN s |-> IF s[i] = ChNewline THEN ChSpace ELSE s[i]]

\* str(v) of a field of an event dict (a str or None)
FieldStr(v) == IF v = None THEN StrNone ELSE v

\* one table row of generate_chronology_table (include_observations = True)
TableRow(event) ==
    LET date == FieldStr(Get(event, "date", StrNA))
        description == Flatten(FieldStr(Get(event, "description", EmptyStr)))
        parties == Join(<< ChComma, ChSpace >>, Get(event, "parties", << >>))
        source == FieldStr(Get(event, "source_document", StrUnknown))
        observations == Flatten(FieldStr(Get(event, "ai_observations", EmptyStr)))
    IN << IF date # StrNone THEN date ELSE StrNA,
          IF description # StrNone THEN description ELSE StrNA,
          IF parties # EmptyStr THEN parties ELSE StrNA,
          IF source # StrNone THEN source ELSE StrNA,
          IF observations # StrNone THEN observations ELSE StrNA >>

ChPipe == 124

\* headers, with include_observations left at its default True
Headers ==
    << << 68, 97, 116, 101 >>,       \* "Date"
       << 68, 101, 115, 99, 114, 105, 112, 116, 105, 111, 110 >>,       \* "Description"
       << 80, 97, 114, 116, 105, 101, 115 >>,       \* "Parties"
       << 83, 111, 117, 114, 99, 101 >>,       \* "Source"
       << 65, 73, 32, 79, 98, 115, 101, 114, 118, 97, 116, 105, 111, 110, 115 >> >>     \* "AI Observations"

\* f"| {' | '.join(cells)} |\n"
RowLine(cells) ==
    << ChPipe, ChSpace >> \o Join(<< ChSpace, ChPipe, ChSpace >>, cells)
        \o << ChSpace, ChPipe, ChNewline >>

\* f"|{'|'.join(['---' for _ in headers])}|\n"
SeparatorLine(headers) ==
    << ChPipe >> \o Join(<< ChPipe >>, [i \in DOMAIN headers |-> << ChDash, ChDash, ChDash >>])
        \o << ChPipe, ChNewline >>

\* for event in sorted_events: table += the row of the event
RECURSIVE RowLines(_)
RowLines(sorted_events) ==
    IF sorted_events = << >> THEN << >>
    ELSE RowLine(TableRow(Head(sorted_events))) \o RowLines(Tail(sorted_events))

\* the markdown text of the table
generate_chronology_table(events) ==
    RowLine(Headers) \o SeparatorLine(Headers) \o RowLines(sort_events(events))

\* ------------------------------- ChronologyGenerator.generate_chronology
\* [extract_event_details(event) for event in events]: the lists the
\* comprehension may build, or the exception of the first event that fails
RECURSIVE ProcessedEvents(_)
ProcessedEvents(events) ==
    IF events = << >> THEN { [list |-> << >>] }
    ELSE { IF Raised(h) THEN h
           ELSE IF Raised(t) THEN t
           ELSE [list |-> << h >> \o t.list] :
             h \in cg_extract_event_details(Head(events)),
             t \in ProcessedEvents(Tail(events)) }

\* variant: the events without a date are not filtered out
GeneratedChronology_unfiltered(processed_events, valid_events) ==
    IF Raised(analyze_chronology(sort_events(processed_events)))
    THEN analyze_chronology(sort_events(processed_events))
    ELSE [events |-> sort_events(processed_events),
          analysis |-> analyze_chronology(sort_events(processed_events)),
          markdown_table |-> generate_chronology_table(sort_events(processed_events)),
          errors |-> IF Len(valid_events) = Len(processed_events) THEN << >>
                     ELSE << "Some events had invalid dates" >>]

\* sorted_events, analysis, markdown_table and the returned dict, given
\* processed_events and valid_events
GeneratedChronology(processed_events, valid_events) ==
    IF Raised(analyze_chronology(sort_events(valid_events)))
    THEN analyze_chronology(sort_events(valid_events))
    ELSE [events |-> sort_events(valid_events),
          analysis |-> analyze_chronology(sort_events(valid_events)),
          markdown_table |-> generate_chronology_table(sort_events(valid_events)),
          errors |-> IF Len(valid_events) = Len(processed_events) THEN << >>
                     ELSE << "Some events had invalid dates" >>]

\* what generate_chronology may return or raise; valid_events is
\* [e for e in processed_events if e['date'] is not None]
generate_chronology(events) ==
    { IF Raised(p) THEN p
      ELSE GeneratedChronology(p.list, SelectSeq(p.list, LAMBDA e : e["date"] # None)) :
        p \in ProcessedEvents(events) }

\* variant: the section heading is written for an empty category as well
Section_always(title, strings) == << [heading |-> title, bullets |-> strings] >>

\* the "## <title>" section with one bullet per string, or nothing
Section(title, strings) ==
    IF strings # << >> THEN << [heading |-> title, bullets |-> strings] >> ELSE << >>

\* the output of format_chronology: its parts in the order they are
\* appended, the table as its text
format_chronology(chronology) ==
    [title |-> "# Case Chronology",
     subtitle |-> "## Timeline of Events",
     table |-> generate_chronology_table(chronology.events),
     sections |-> Section("## Key Observations", chronology.analysis.key_observations)
                  \o Section("## Timeline Gaps", chronology.analysis.potential_gaps)
                  \o Section("## Recommendations", chronology.analysis.recommendations)]

\* ---------------------------------------------------------------- inputs
\* the bounded sets the inputs are drawn from
SeqsUpTo(S, n) == UNION { [1..k -> S] : k \in 0..n }

StrA == << 65 >>                 \* "A"
StrAl == << 65, 108 >>           \* "Al"
StrB == << 66 >>                 \* "B"
StrX == << 120 >>                \* "x"
StrY == << 121 >>                \* "y"
StrBlank == << ChSpace, ChSpace >>
StrJunk == << 106, 117, 110, 107 >>     \* "junk", no date
DocName(i) == << 96 + i >>       \* "a", "b", "c", ...

Day1 == strftime(2024, 1, 1)
Day31 == strftime(2024, 1, 31)   \* 30 days after Day1
Day32 == strftime(2024, 2, 1)    \* 31 days after Day1
LastDay == strftime(9999, 12, 31)

Ev(date, description, source, parties) ==
    [date |-> date, description |-> description,
     source_document |-> source, parties |-> parties]

\* event dicts handed to sort_events, analyze_chronology and create_chronology
FnEventSet ==
    { Ev(Day1, StrX, DocName(1), << StrB, StrA >>),
      Ev(Day1, StrY, DocName(1), << StrA, StrB >>),
      Ev(Day31, StrX, DocName(2), << >>),
      Ev(Day32, StrX, DocName(1), << StrAl >>),
      Ev(None, StrX, DocName(1), << >>),
      Ev(None, StrY, DocName(2), << StrA >>),
      Ev(LastDay, StrX, DocName(2), << >>),
      [description |-> StrX, source_document |-> DocName(1)] }    \* no "date", no "parties"

\* items of the JSON array a response carries
RawDated ==
    JObj([description |-> JStr(StrX), date |-> JStr(Day32),
          parties |-> JList(<< JStr(StrB), JStr(StrA) >>), source |-> JStr(StrJunk)])
RawUndated ==
    JObj([description |-> JStr(<< ChSpace >> \o StrY), date |-> JStr(StrJunk),
          participants |-> JStr(StrA \o << ChComma, ChSpace >> \o StrAl)])
RawEarly ==
    JObj([description |-> JStr(StrY), date |-> JStr(Day1)])
RawBlank == JObj([description |-> JStr(StrBlank), date |-> JStr(Day1)])

\* a raw event dated after every date a raw record of RawRecordSet carries
LaterRecord ==
    JObj([date |-> JStr(Day32), description |-> JStr(StrX),
          source_document |-> JStr(DocName(2))])

PipelineItemSet == { RawDated, RawUndated, RawBlank, JNum(1) }

\* (an object with a list in it is left out of RespObject: its text holds
\* "[" and "]")
ResponseSet(items) ==
    { Resp(TRUE, FALSE, FALSE, FALSE, FALSE, FALSE, << >>),     \* the call raises
      Resp(FALSE, FALSE, FALSE, FALSE, FALSE, FALSE, << >>),    \* prose, no JSON at all
      Resp(FALSE, TRUE, FALSE, FALSE, FALSE, FALSE, << >>),     \* "[" but no "]"
      Resp(FALSE, FALSE, TRUE, FALSE, FALSE, FALSE, << >>),     \* "]" but no "["
      RespBadArray,
      Resp(FALSE, FALSE, FALSE, TRUE, TRUE, FALSE, << >>) }     \* "{...,}"
    \cup { RespArray(a) : a \in SeqsUpTo(items, MaxItems) }
    \cup { RespObject(i) : i \in { x \in items : IsJObj(x) /\ \A k \in DOMAIN x.obj : ~IsJList(x.obj[k]) } }

\* event dicts handed to the renderer: with a description, a source and an
\* annotation of two lines
StrTwoLines == StrX \o << ChNewline >> \o StrY      \* "x\ny"

RenderEventSet ==
    { Ev(Day32, StrX, DocName(1), << StrA >>),
      Ev(Day1, StrTwoLines, DocName(2), << >>),
      Ev(None, StrY, DocName(1), << StrB, StrA >>),
      Ev(Day1, StrY, StrTwoLines, << >>),
      [date |-> Day31, description |-> StrX, source_document |-> DocName(1),
       parties |-> << >>, ai_observations |-> StrTwoLines] }

\* raw records handed to the normalizers: every choice of the fields below
Absent == [absent |-> TRUE]

\* the dict holding the fields that are present
RawOf(fields) == [k \in { x \in DOMAIN fields : fields[x] # Absent } |-> fields[k]]

StrABA == << 65, 44, 32, 66, 44, 32, 65 >>       \* "A, B, A"

RawRecordSet ==
    { RawOf([description |-> d, event |-> e, date |-> dt,
             parties |-> p[1], participants |-> p[2],
             source_document |-> sd[1], source |-> sd[2],
             ai_observations |-> o]) :
        d \in { Absent, JStr(StrX), JStr(<< ChSpace >> \o StrY \o << ChSpace >>),
                JNull, JNum(1) },
        e \in { Absent, JStr(StrAl) },
        dt \in { Absent, JNull, JStr(EmptyStr), JStr(Day1), JStr(StrJunk),
                 JStr(<< 110, 117, 108, 108 >>),        \* "null"
                 JStr(<< 78, 47, 65 >>),                \* "N/A"
                 JStr(<< 50, 48, 50, 52, 32, 49, 32, 53 >>),            \* "2024 1 5"
                 JStr(<< 53, 32, 50, 48, 50, 52 >>),                    \* "5 2024"
                 JStr(<< 49, 50, 51, 32, 50, 48, 50, 52, 32, 53 >>) },  \* "123 2024 5"
        \* << parties, participants >>
        p \in { << Absent, Absent >>,
                << JStr(StrABA), Absent >>,
                << JList(<< JStr(<< ChSpace >> \o StrA), JStr(StrA), JStr(StrB) >>), Absent >>,
                << JList(<< JStr(StrBlank), JStr(StrB) >>), Absent >>,
                << JNull, Absent >>,
                << JNum(1), Absent >>,
                << Absent, JStr(StrB \o << ChComma >> \o StrA) >>,
                << JList(<< JStr(StrA) >>), JStr(StrB) >> },
        \* << source_document, source >>
        sd \in { << Absent, Absent >>, << JStr(StrJunk), Absent >>,
                 << Absent, JStr(StrJunk) >>, << JNull, Absent >> },
        o \in { Absent, JStr(<< 110, 111, 116, 101 >>) } }      \* "note"

\* ----------------------------------------------------------------- state
VARIABLES
    documents_text,     \* request.documents_text
    document_names,     \* request.document_names
    pc,                 \* where generate_chronology (the handler) stands
    idx,                \* position of the for loop in the zipped lists
    inflight,           \* the response the awaited model call delivers
    events,             \* the handler's local: last result of extract_events
    all_events,         \* the accumulation buffer
    extracted,          \* log: the list each extract_events call returned, in call order
    chronology,         \* result of create_chronology
    markdown_output,    \* result of format_chronology
    exception,          \* exception travelling to the handler's except clause
    response,           \* what the HTTP client receives
    fn_events,          \* function harness: the argument
    fn_op,              \* function harness: the function applied
    fn_resp,            \* function harness: the language model's response
    fn_out,             \* function harness: the value returned or exception raised
    fn_raw,             \* normalizer harness: the raw record (a JSON value)
    fn_name,            \* normalizer harness: the document_name argument
    parsed              \* log: the strings handed to dateparser.parse, in call order

handler_vars == << documents_text, document_names, pc, idx, inflight, events,
                   all_events, extracted, chronology, markdown_output, exception,
                   response >>
norm_vars == << fn_raw, fn_name, parsed >>
fn_vars == << fn_events, fn_op, fn_resp, fn_out, norm_vars >>
vars == << handler_vars, fn_vars >>

NoValue == [none |-> TRUE]

NoEventsDetail == "No events could be extracted from any of the documents."

\* zip(request.documents_text, request.document_names)
NDocs == IF Len(documents_text) < Len(document_names)
         THEN Len(documents_text) ELSE Len(document_names)

HandlerIdle ==
    /\ pc = "idle" /\ idx = 0 /\ documents_text = << >> /\ document_names = << >>
    /\ inflight = NoValue /\ events = << >> /\ all_events = << >>
    /\ extracted = << >>
    /\ chronology = NoValue /\ markdown_output = NoValue
    /\ exception = NoValue /\ response = NoValue

NormIdle == fn_raw = NoValue /\ fn_name = NoValue /\ parsed = << >>

FnIdle ==
    /\ fn_events = << >> /\ fn_op = "idle" /\ fn_resp = NoValue /\ fn_out = NoValue
    /\ NormIdle

\* ------------------------------------ POST /chronology/generate (handler)
Init ==
    /\ documents_text \in SeqsUpTo({ StrBlank, StrX }, MaxDocs)
    /\ document_names \in { [i \in 1..k |-> DocName(i)] : k \in 0..MaxDocs }
    /\ pc = "loop"
    /\ idx = 1
    /\ inflight = NoValue
    /\ events = << >>
    /\ all_events = << >>
    /\ extracted = << >>
    /\ chronology = NoValue
    /\ markdown_output = NoValue
    /\ exception = NoValue
    /\ response = NoValue
    /\ FnIdle

\* if not text.strip(): continue
SkipBlank ==
    /\ pc = "loop" /\ idx <= NDocs
    /\ Strip(documents_text[idx]) = EmptyStr
    /\ idx' = idx + 1
    /\ UNCHANGED << documents_text, document_names, extracted, pc, inflight, events, all_events,
                    chronology, markdown_output, exception, response, fn_vars >>

\* variant: the blank-text test is missing, every paired document is sent
CallExtract_blank ==
    /\ pc = "loop" /\ idx <= NDocs
    /\ \E r \in ResponseSet(PipelineItemSet) : inflight' = r
    /\ pc' = "await_extract"
    /\ UNCHANGED << documents_text, document_names, extracted, idx, events, all_events,
                    chronology, markdown_output, exception, response, fn_vars >>

\* await processor.extract_events(text, doc_name): the call is made and the
\* model answers
CallExtract ==
    /\ pc = "loop" /\ idx <= NDocs
    /\ Strip(documents_text[idx]) # EmptyStr
    /\ \E r \in ResponseSet(PipelineItemSet) : inflight' = r
    /\ pc' = "await_extract"
    /\ UNCHANGED << documents_text, document_names, extracted, idx, events, all_events,
                    chronology, markdown_output, exception, response, fn_vars >>

\* extract_events returns
ExtractReturn ==
    /\ pc = "await_extract"
    /\ events' = extract_events(inflight, document_names[idx])
    /\ extracted' = Append(extracted, events')
    /\ pc' = "extend"
    /\ UNCHANGED << documents_text, document_names, idx, inflight, all_events,
                    chronology, markdown_output, exception, response, fn_vars >>

\* variant: the buffer is overwritten by the last document's events
Extend_overwrite ==
    /\ pc = "extend"
    /\ all_events' = events
    /\ idx' = idx + 1
    /\ inflight' = NoValue
    /\ pc' = "loop"
    /\ UNCHANGED << documents_text, document_names, extracted, events,
                    chronology, markdown_output, exception, response, fn_vars >>

\* if events: all_events.extend(events)
Extend ==
    /\ pc = "extend"
    /\ all_events' = IF events # << >> THEN all_events \o events ELSE all_events
    /\ idx' = idx + 1
    /\ inflight' = NoValue
    /\ pc' = "loop"
    /\ UNCHANGED << documents_text, document_names, extracted, events,
                    chronology, markdown_output, exception, response, fn_vars >>

\* if not all_events: raise HTTPException(status_code=400, ...)
RaiseNoEvents ==
    /\ pc = "loop" /\ idx > NDocs
    /\ all_events = << >>
    /\ exception' = [exc |-> "HTTPException", status_code |-> 400,
                     detail |-> NoEventsDetail]
    /\ pc' = "except"
    /\ UNCHANGED << documents_text, document_names, extracted, idx, inflight, events, all_events,
                    chronology, markdown_output, response, fn_vars >>

\* await processor.create_chronology(all_events, request.case_description)
CallCreate ==
    /\ pc = "loop" /\ idx > NDocs
    /\ all_events # << >>
    /\ \E r \in ResponseSet(PipelineItemSet) : inflight' = r
    /\ pc' = "await_create"
    /\ UNCHANGED << documents_text, document_names, extracted, idx, events, all_events,
                    chronology, markdown_output, exception, response, fn_vars >>

\* create_chronology returns or raises
CreateReturn ==
    /\ pc = "await_create"
    /\ \E r \in { create_chronology(all_events, inflight) } :
          IF Raised(r)
          THEN exception' = r /\ pc' = "except" /\ UNCHANGED chronology
          ELSE chronology' = r /\ pc' = "format" /\ UNCHANGED exception
    /\ inflight' = NoValue
    /\ UNCHANGED << documents_text, document_names, extracted, idx, events, all_events,
                    markdown_output, response, fn_vars >>

\* markdown_output = processor.format_chronology(chronology)
Format ==
    /\ pc = "format"
    /\ markdown_output' = format_chronology(chronology)
    /\ pc' = "return"
    /\ UNCHANGED << documents_text, document_names, extracted, idx, inflight, events, all_events,
                    chronology, exception, response, fn_vars >>

\* variant: the response carries the events of the reasoned chronology
Return_reasoned ==
    /\ pc = "return"
    /\ response' = [status_code |-> 200, events |-> chronology.events,
                    markdown_output |-> markdown_output]
    /\ pc' = "done"
    /\ UNCHANGED << documents_text, document_names, extracted, idx, inflight, events, all_events,
                    chronology, markdown_output, exception, fn_vars >>

\* return ChronologyResponse(events=all_events, markdown_output=markdown_output)
Return ==
    /\ pc = "return"
    /\ response' = [status_code |-> 200, events |-> all_events,
                    markdown_output |-> markdown_output]
    /\ pc' = "done"
    /\ UNCHANGED << documents_text, document_names, extracted, idx, inflight, events, all_events,
                    chronology, markdown_output, exception, fn_vars >>

\* except Exception as e: raise HTTPException(status_code=500, detail=f"...{str(e)}")
Except ==
    /\ pc = "except"
    /\ response' = [status_code |-> 500,
                    detail |-> [text |-> "An error occurred while processing the documents: {}",
                                e |-> exception]]
    /\ pc' = "done"
    /\ UNCHANGED << documents_text, document_names, extracted, idx, inflight, events, all_events,
                    chronology, markdown_output, exception, fn_vars >>

Next ==
    \/ SkipBlank
    \/ CallExtract
    \/ ExtractReturn
    \/ Extend
    \/ RaiseNoEvents
    \/ CallCreate
    \/ CreateReturn
    \/ Format
    \/ Return
    \/ Except

Spec == Init /\ [][Next]_vars

\* ------------------------------------------------------ function harness
InitFn ==
    /\ HandlerIdle
    /\ fn_events \in SeqsUpTo(FnEventSet, MaxEvents)
    /\ fn_op = "input"
    /\ fn_resp = NoValue
    /\ fn_out = NoValue
    /\ NormIdle

ApplySort ==
    /\ fn_op = "input"
    /\ fn_op' = "sort_events"
    /\ fn_out' = sort_events(fn_events)
    /\ UNCHANGED << fn_events, fn_resp, handler_vars, norm_vars >>

\* variant: the analyzer sorts the caller's list in place (events.sort(key=...))
ApplyAnalyze_inplace ==
    /\ fn_op = "input"
    /\ fn_op' = "analyze_chronology"
    /\ fn_out' = analyze_chronology(fn_events)
    /\ fn_events' = sort_events(fn_events)
    /\ UNCHANGED << fn_resp, handler_vars, norm_vars >>

\* analyze_chronology(events): it binds sorted(...) to a new local and only
\* reads events and the dicts in it
ApplyAnalyze ==
    /\ fn_op = "input"
    /\ fn_op' = "analyze_chronology"
    /\ fn_out' = analyze_chronology(fn_events)
    /\ UNCHANGED << fn_events, fn_resp, handler_vars, norm_vars >>

\* a second call on the list the first call was given
ApplyAnalyzeAgain ==
    /\ fn_op = "analyze_chronology"
    /\ fn_op' = "analyze_chronology_again"
    /\ fn_out' = analyze_chronology(fn_events)
    /\ UNCHANGED << fn_events, fn_resp, handler_vars, norm_vars >>

ApplyCreate ==
    /\ fn_op = "input"
    /\ \E r \in ResponseSet({ RawDated, RawEarly, RawBlank, JNum(1) }) :
         /\ fn_resp' = r
         /\ fn_out' = create_chronology(fn_events, r)
    /\ fn_op' = "create_chronology"
    /\ UNCHANGED << fn_events, handler_vars, norm_vars >>

NextFn == ApplySort \/ ApplyAnalyze \/ ApplyAnalyzeAgain \/ ApplyCreate

SpecFn == InitFn /\ [][NextFn]_vars

\* ---------------------------------------------------- normalizer harness
InitNorm ==
    /\ HandlerIdle
    /\ fn_events = << Ev(Day1, StrX, DocName(1), << >>) >>     \* the accumulated list
    /\ fn_op = "input"
    /\ fn_resp = NoValue
    /\ fn_out = NoValue
    /\ fn_raw \in { JObj(r) : r \in RawRecordSet } \cup { JNull, JNum(1) }
    /\ fn_name = NoValue
    /\ parsed = << >>

\* the strings the llm_processor normalizer hands to dateparser.parse for a
\* value: parse_date(str(event.get("date", ""))) calls the parser unless
\* `not date_str`
DateCalls(value) ==
    IF IsJObj(value) /\ PyStr(Get(value.obj, "date", JStr(EmptyStr))) # EmptyStr
    THEN << PyStr(Get(value.obj, "date", JStr(EmptyStr))) >>
    ELSE << >>

\* the same for the chronology_generator normalizer:
\* standardize_date(event.get("date")) calls the parser on the stripped str
\* unless the guard of line 29 returns
cg_DateCalls(value) ==
    IF IsJObj(value) /\ ~ShortCircuits(Get(value.obj, "date", JNull))
    THEN << Strip(PyStr(Get(value.obj, "date", JNull))) >>
    ELSE << >>

ApplyNormalize ==
    /\ fn_op = "input"
    /\ fn_op' = "extract_event_details"
    /\ fn_out' = extract_event_details_guarded(fn_raw)
    /\ parsed' = DateCalls(fn_raw)
    /\ UNCHANGED << fn_events, fn_resp, fn_raw, fn_name, handler_vars >>

ApplyNormalizeCG ==
    /\ fn_op = "input"
    /\ fn_op' = "cg_extract_event_details"
    /\ \E r \in cg_extract_event_details(fn_raw) : fn_out' = r
    /\ parsed' = cg_DateCalls(fn_raw)
    /\ UNCHANGED << fn_events, fn_resp, fn_raw, fn_name, handler_vars >>

\* extract_events(text, document_name), the model answering with the record
ApplyExtract ==
    /\ fn_op = "input"
    /\ fn_op' = "extract_events"
    /\ fn_resp' = RespArray(<< fn_raw >>)
    /\ \E name \in { DocName(1), << ChSpace >> \o DocName(2) } :
          /\ fn_name' = name
          /\ fn_out' = extract_events(RespArray(<< fn_raw >>), name)
    /\ parsed' = DateCalls(fn_raw)
    /\ UNCHANGED << fn_events, fn_raw, handler_vars >>

\* create_chronology(events, case_description), the reasoning call answering
\* with the record
ApplyReason ==
    /\ fn_op = "input"
    /\ fn_op' = "create_chronology"
    /\ fn_resp' = RespArray(<< fn_raw >>)
    /\ fn_out' = create_chronology(fn_events, RespArray(<< fn_raw >>))
    /\ parsed' = DateCalls(fn_raw)
    /\ UNCHANGED << fn_events, fn_raw, fn_name, handler_vars >>

\* generate_chronology(events) on a later event followed by the record
ApplyGenerate ==
    /\ fn_op = "input"
    /\ fn_op' = "generate_chronology"
    /\ \E r \in generate_chronology(<< LaterRecord, fn_raw >>) : fn_out' = r
    /\ parsed' = cg_DateCalls(LaterRecord) \o cg_DateCalls(fn_raw)
    /\ UNCHANGED << fn_events, fn_resp, fn_raw, fn_name, handler_vars >>

NextNorm ==
    ApplyNormalize \/ ApplyNormalizeCG \/ ApplyExtract \/ ApplyReason \/ ApplyGenerate

SpecNorm == InitNorm /\ [][NextNorm]_vars

\* ------------------------------------------------------ renderer harness
InitRender ==
    /\ HandlerIdle
    /\ fn_events \in SeqsUpTo(RenderEventSet, MaxEvents)
    /\ fn_op = "input"
    /\ fn_resp = NoValue
    /\ fn_out = NoValue
    /\ NormIdle

ApplyTable ==
    /\ fn_op = "input"
    /\ fn_op' = "generate_chronology_table"
    /\ fn_out' = generate_chronology_table(fn_events)
    /\ UNCHANGED << fn_events, fn_resp, handler_vars, norm_vars >>

\* format_chronology of the chronology the fallback makes of the events
ApplyFormat ==
    /\ fn_op = "input"
    /\ fn_op' = "format_chronology"
    /\ fn_out' = format_chronology(Chronology(fn_events))
    /\ UNCHANGED << fn_events, fn_resp, handler_vars, norm_vars >>

NextRender == ApplyTable \/ ApplyFormat

SpecRender == InitRender /\ [][NextRender]_vars

\* --------------------------------------------- document order harness
\* the orders in which n documents can be taken
Perms(n) == { p \in [1..n -> 1..n] : \A i, j \in 1..n : i # j => p[i] # p[j] }

\* all_events after the handler's loop, given the list extract_events
\* returned for each document taken: if events: all_events.extend(events)
RECURSIVE Concat(_)
Concat(lists) == IF lists = << >> THEN << >> ELSE Head(lists) \o Concat(Tail(lists))

\* a request of non-blank documents, with what extract_events makes of each
\* (the same answer for a document in whatever order it is taken)
InitOrder ==
    /\ document_names \in SeqsUpTo({ DocName(1), DocName(2) }, MaxDocs)
    /\ documents_text = [i \in DOMAIN document_names |-> StrX]
    /\ extracted \in
          { [i \in DOMAIN document_names |->
                extract_events(RespArray(a[i]), document_names[i])] :
            a \in [DOMAIN document_names ->
                     { << >>, << RawDated >>, << RawUndated >>,
                       << RawBlank, JObj([description |-> JStr(StrX)]) >> }] }
    /\ pc = "order"
    /\ idx = 0
    /\ inflight = NoValue
    /\ events = << >>
    /\ all_events = << >>
    /\ chronology = NoValue
    /\ markdown_output = NoValue
    /\ exception = NoValue
    /\ response = NoValue
    /\ FnIdle

\* the handler run on the documents taken in the order p, the reasoning
\* call failing: the loop, the no-events test, the fallback chronology and
\* format_chronology
ProcessInOrder ==
    /\ pc = "order"
    /\ \E p \in Perms(Len(extracted)) :
          all_events' = Concat([i \in DOMAIN extracted |-> extracted[p[i]]])
    /\ IF all_events' = << >>
       THEN /\ exception' = [exc |-> "HTTPException", status_code |-> 400,
                             detail |-> NoEventsDetail]
            /\ UNCHANGED << chronology, markdown_output >>
       ELSE /\ chronology' = Fallback(all_events')
            /\ markdown_output' = format_chronology(Fallback(all_events'))
            /\ UNCHANGED exception
    /\ pc' = "done"
    /\ UNCHANGED << documents_text, document_names, extracted, idx, inflight, events,
                    response, fn_vars >>

SpecOrder == InitOrder /\ [][ProcessInOrder]_vars

\* ================================================================ claims

\* ---- C1: when every document yields zero events the request fails with
\* the dedicated no-events error, HTTP 400, which differs from the generic
\* HTTP 500, and no markdown is produced.
C1_NoEventsIs400 ==
    (pc = "done" /\ all_events = << >>)
        => (response.status_code = 400 /\ markdown_output = NoValue)

\* ---- C2: on every fallback condition (no JSON array or object, JSON parse
\* failure, no record with a non-empty description, the call raising) the
\* chronology create_chronology returns has exactly the input events, in the
\* input order, and the analysis of that list.
NoJsonFound(r) == ~(r.lbracket /\ r.rbracket) /\ ~(r.lbrace /\ r.rbrace)

NoDescribedRecord(r) ==
    \A i \in DOMAIN r.json.value :
        LET item == r.json.value[i]
        IN IsJObj(item) =>
             \/ "description" \notin DOMAIN item.obj
             \/ Strip(PyStr(item.obj["description"])) = EmptyStr

FallbackCondition(r) ==
    \/ r.raises
    \/ NoJsonFound(r)
    \/ ~r.json.ok
    \/ NoDescribedRecord(r)

C3_NeverRaises == fn_op = "create_chronology" => ~Raised(fn_out)

\* ---- C4: a failed extraction (call raises, no JSON array, unparsable JSON)
\* makes extract_events return the empty list, the handler still goes through
\* all remaining documents, and once some document has yielded an event the
\* no-events error is not raised.
FailedExtraction(r) == r.raises \/ ~r.lbracket \/ ~r.rbracket \/ ~r.json.ok

NonBlankDocs ==
    Cardinality({ i \in 1..NDocs : \E j \in DOMAIN documents_text[i] :
                                      documents_text[i][j] # ChSpace })

NoEventsRaised ==
    /\ Raised(exception)
    /\ exception.exc = "HTTPException"
    /\ exception.status_code = 400

SomeDocYielded == \E i \in DOMAIN extracted : extracted[i] # << >>

C4_FailedDocIsSkipped ==
    /\ (pc = "extend" /\ FailedExtraction(inflight)) => events = << >>
    /\ pc \in { "await_create", "format", "return", "except", "done" }
          => Len(extracted) = NonBlankDocs
    /\ SomeDocYielded
          => /\ ~NoEventsRaised
             /\ (pc = "done" => response.status_code # 400)

C4_Witness ==
    /\ pc = "done"
    /\ Len(extracted) = 2
    /\ extracted[1] # << >>
    /\ extracted[2] = << >>
    /\ response.status_code = 200

\* ---- C5: the events of the chronology create_chronology returns are in
\* non-decreasing date order, on the reasoning path and on the fallback path.
InDateOrder(evs) ==
    \A i, j \in DOMAIN evs :
        (i < j /\ evs[i]["date"] # None /\ evs[j]["date"] # None)
            => ~StrLT(evs[j]["date"], evs[i]["date"])

C5_EventsInDateOrder ==
    (fn_op = "create_chronology" /\ ~Raised(fn_out)) => InDateOrder(fn_out.events)

\* ---- C6: in the output of sort_events every event with date = null comes
\* after every event that has a date.
IsUndated(e) == "date" \notin DOMAIN e \/ e["date"] = None

C6_NullDatesLast ==
    fn_op = "sort_events"
        => \A i, j \in DOMAIN fn_out :
              (IsUndated(fn_out[i]) /\ ~IsUndated(fn_out[j])) => j < i

\* ---- C7: sort_events returns a permutation of its input, ascending by the
\* key (date, or "9999-12-31" when absent; then source_document), events with
\* the same key keep their input order, and sorting the output changes nothing.
ClaimKey(e) ==
    << IF IsUndated(e) THEN LastDay ELSE e["date"],
       IF "source_document" \in DOMAIN e THEN e["source_document"] ELSE EmptyStr >>

ClaimKeyLT(k1, k2) == StrLT(k1[1], k2[1]) \/ (k1[1] = k2[1] /\ StrLT(k1[2], k2[2]))

C7_StableSort ==
    fn_op = "sort_events"
        => /\ Len(fn_out) = Len(fn_events)
           /\ \E p \in Perms(Len(fn_events)) :
                 /\ \A i \in DOMAIN fn_out : fn_out[i] = fn_events[p[i]]
                 /\ \A i, j \in DOMAIN fn_out :
                       i < j => /\ ~ClaimKeyLT(ClaimKey(fn_out[j]), ClaimKey(fn_out[i]))
                                /\ ClaimKey(fn_out[i]) = ClaimKey(fn_out[j]) => p[i] < p[j]
           /\ sort_events(fn_out) = fn_out

C7_Witness ==
    /\ fn_op = "sort_events"
    /\ Len(fn_events) = 3
    /\ fn_out # fn_events
    /\ \E i, j \in DOMAIN fn_events :
          /\ i < j
          /\ fn_events[i] # fn_events[j]
          /\ ClaimKey(fn_events[i]) = ClaimKey(fn_events[j])

\* ---- C8: potential_gaps has one entry, naming both dates and the length,
\* for each adjacent pair of the sorted list whose events are both dated and
\* more than 30 days apart, in that order, and nothing else: 31 days give one
\* entry, 30 days none, a pair with an undated event none.
DayNumber(date) == ToOrdinal(strptime(date))

GapPairs(sorted) ==
    { i \in 1..(Len(sorted) - 1) :
        /\ sorted[i]["date"] # None
        /\ sorted[i + 1]["date"] # None
        /\ DayNumber(sorted[i + 1]["date"]) - DayNumber(sorted[i]["date"]) > 30 }

C8_GapEntries ==
    (fn_op = "analyze_chronology" /\ ~Raised(fn_out))
        => LET sorted == sort_events(fn_events)
               gaps == fn_out.potential_gaps
           IN /\ Len(gaps) = Cardinality(GapPairs(sorted))
              /\ \A i \in GapPairs(sorted) :
                    LET k == Cardinality({ j \in GapPairs(sorted) : j <= i })
                    IN /\ gaps[k].first = sorted[i]["date"]
                       /\ gaps[k].second = sorted[i + 1]["date"]
                       /\ gaps[k].gap_days = DayNumber(sorted[i + 1]["date"])
                                               - DayNumber(sorted[i]["date"])
              /\ (fn_events = << Ev(Day1, StrX, DocName(1), << StrB, StrA >>),
                                 Ev(Day31, StrX, DocName(2), << >>) >>)
                    => gaps = << >>
              /\ (fn_events = << Ev(Day32, StrX, DocName(1), << StrAl >>),
                                 Ev(Day1, StrX, DocName(1), << StrB, StrA >>) >>)
                    => (Len(gaps) = 1 /\ gaps[1].gap_days = 31)

C8_Witness ==
    /\ fn_op = "analyze_chronology"
    /\ ~Raised(fn_out)
    /\ Len(fn_events) = 3
    /\ Len(fn_out.potential_gaps) = 1
    /\ fn_out.potential_gaps[1].gap_days = 31
    /\ \E i \in DOMAIN fn_events : fn_events[i]["date"] = None

\* ---- C9: recommendations hold exactly one entry, naming the number of
\* undated events, if some input event lacks a date (an event without a date
\* field included), and are empty otherwise.
UndatedCount(evs) == Cardinality({ i \in DOMAIN evs : IsUndated(evs[i]) })

C9_MissingDateRollup ==
    fn_op = "analyze_chronology"
        => /\ ~Raised(fn_out)
           /\ fn_out.recommendations =
                 IF UndatedCount(fn_events) > 0
                 THEN << MissingDatesText(UndatedCount(fn_events)) >>
                 ELSE << >>

\* ---- C10: key_observations hold exactly one entry, the union of all
\* parties sorted lexicographically and comma-joined, if that union is not
\* empty, and are empty otherwise; the entry is the same for every order of
\* the events and of the parties within an event.
PartyUnion(evs) ==
    { p \in { StrA, StrAl, StrB } :
        \E i \in DOMAIN evs :
            /\ "parties" \in DOMAIN evs[i]
            /\ \E j \in DOMAIN evs[i]["parties"] : evs[i]["parties"][j] = p }

Ascending(q) == \A i, j \in DOMAIN q : i < j => StrLT(q[i], q[j])

Reverse(q) == [i \in DOMAIN q |-> q[Len(q) + 1 - i]]

ReverseParties(e) ==
    IF "parties" \in DOMAIN e THEN [e EXCEPT !["parties"] = Reverse(@)] ELSE e

C10_KeyParties ==
    (fn_op = "analyze_chronology" /\ ~Raised(fn_out))
        => LET U == PartyUnion(fn_events)
               obs == fn_out.key_observations
           IN /\ U = {} => obs = << >>
              /\ U # {} =>
                    /\ Len(obs) = 1
                    /\ \E q \in [1..Cardinality(U) -> U] :
                          /\ Ascending(q)
                          /\ obs[1].parties = Join(<< ChComma, ChSpace >>, q)
              /\ \A p \in Perms(Len(fn_events)) :
                    analyze_chronology([i \in DOMAIN fn_events |-> fn_events[p[i]]])
                        .key_observations = obs
              /\ analyze_chronology([i \in DOMAIN fn_events |-> ReverseParties(fn_events[i])])
                        .key_observations = obs

C10_Witness ==
    /\ fn_op = "analyze_chronology"
    /\ ~Raised(fn_out)
    /\ PartyUnion(fn_events) = { StrA, StrAl, StrB }
    /\ Len(fn_out.key_observations) = 1
    /\ fn_out.key_observations[1].parties =
          << 65, 44, 32, 65, 108, 44, 32, 66 >>     \* "A, Al, B"

C12_NormalizerNeverRaises ==
    fn_op \in { "extract_event_details", "cg_extract_event_details" }
        => /\ ~Raised(fn_out)
           /\ ~IsJObj(fn_raw) => fn_out = DeadEvent

\* ---- C13: for a record whose date is missing, null or, in any letter
\* case, one of "null", "none", "", "n/a", both normalizers give date = null
\* and hand nothing to dateparser.parse; a date text that cannot be read
\* gives date = null as well.
HasNullDate(event) ==
    \/ "date" \notin DOMAIN event
    \/ event["date"] = JNull
    \/ IsJStr(event["date"]) /\ Lower(event["date"].str) \in NullWords

HasUnreadableDate(event) == "date" \in DOMAIN event /\ event["date"] = JStr(StrJunk)

C13_NullDateShortCircuits ==
    (/\ fn_op \in { "extract_event_details", "cg_extract_event_details" }
     /\ IsJObj(fn_raw)
     /\ ~Raised(fn_out))
        => /\ HasNullDate(fn_raw.obj) => (fn_out["date"] = None /\ parsed = << >>)
           /\ HasUnreadableDate(fn_raw.obj) => fn_out["date"] = None

\* ---- C14: for a raw record that extract_events or create_chronology
\* handles, the description of the normalized event is str(...).strip() of
\* the value under "description" if the record has that key, else of the
\* value under "event"; with both keys present "description" is taken.
ClaimedDescription(event) ==
    IF "description" \in DOMAIN event THEN Strip(PyStr(event["description"]))
    ELSE IF "event" \in DOMAIN event THEN Strip(PyStr(event["event"]))
    ELSE EmptyStr

\* the events the call has made of the record (none: it was dropped, and
\* create_chronology hands back the list it was given)
EventsOut ==
    IF fn_op = "extract_events" THEN fn_out
    ELSE IF fn_out.events = fn_events THEN << >>
    ELSE fn_out.events

RecordHandled ==
    /\ fn_op \in { "extract_events", "create_chronology" }
    /\ IsJObj(fn_raw)
    /\ fn_op = "create_chronology" => ~Raised(fn_out)

C14_DescriptionWins ==
    RecordHandled
        => IF ClaimedDescription(fn_raw.obj) = EmptyStr
           THEN EventsOut = << >>
           ELSE /\ Len(EventsOut) = 1
                /\ EventsOut[1].description = ClaimedDescription(fn_raw.obj)

\* ---- C15: the parties of a normalized event (either normalizer) are
\* distinct, trimmed, non-empty strings: those of "parties", else of
\* "participants"; a string is split on commas, list elements are trimmed,
\* duplicates are collapsed ("A, B, A" gives exactly A and B) and no empty or
\* blank name appears.
ClaimedNames(parties) ==
    IF IsJStr(parties)
    THEN { Strip(Split(parties.str, ChComma)[i]) : i \in DOMAIN Split(parties.str, ChComma) }
    ELSE IF IsJList(parties)
    THEN { Strip(PyStr(parties.list[i])) : i \in DOMAIN parties.list }
    ELSE {}

ClaimedParties(event) ==
    ClaimedNames(Get(event, "parties", Get(event, "participants", JList(<< >>))))
        \ { EmptyStr }

C15_PartiesDistinctTrimmed ==
    (/\ fn_op \in { "extract_event_details", "cg_extract_event_details" }
     /\ IsJObj(fn_raw)
     /\ ~Raised(fn_out))
        => /\ \A i \in DOMAIN fn_out.parties :
                 /\ fn_out.parties[i] # EmptyStr
                 /\ Strip(fn_out.parties[i]) = fn_out.parties[i]
           /\ \A i, j \in DOMAIN fn_out.parties :
                 i # j => fn_out.parties[i] # fn_out.parties[j]
           /\ { fn_out.parties[i] : i \in DOMAIN fn_out.parties }
                 = ClaimedParties(fn_raw.obj)
           /\ Get(fn_raw.obj, "parties", Absent) = JStr(StrABA)
                 => Len(fn_out.parties) = 2

\* ---- C16: every event extract_events(text, document_name) returns has
\* source_document equal to document_name, whatever "source" or
\* "source_document" the raw record carried.
C16_SourceIsDocumentName ==
    fn_op = "extract_events"
        => \A i \in DOMAIN fn_out : fn_out[i].source_document = fn_name

\* ---- C17: no event whose trimmed description is empty is in a list
\* extract_events returned, in the handler's accumulated list, or in the
\* events of the chronology create_chronology built from that list, by the
\* reasoning path or by the fallback.
AllDescribed(evs) == \A i \in DOMAIN evs : Strip(evs[i].description) # EmptyStr

C17_NoEmptyDescriptions ==
    /\ \A k \in DOMAIN extracted : AllDescribed(extracted[k])
    /\ AllDescribed(events)
    /\ AllDescribed(all_events)
    /\ chronology # NoValue => AllDescribed(chronology.events)

\* a record with a blank description was answered next to a described one
C17_Witness ==
    /\ pc = "extend"
    /\ inflight = RespArray(<< RawBlank, RawDated >>)
    /\ Len(events) = 1
    /\ all_events # << >>

\* ---- C18: every normalized event (either normalizer) has the field
\* ai_observations, holding the raw record's value if it has one and ""
\* otherwise; an annotation the reasoning call returned is on the event of
\* the chronology create_chronology returns.
ClaimedObservations(event) ==
    IF "ai_observations" \in DOMAIN event THEN PyVal(event["ai_observations"])
    ELSE EmptyStr

CarriesObservations(normalized, event) ==
    /\ "ai_observations" \in DOMAIN normalized
    /\ normalized["ai_observations"] = ClaimedObservations(event)

C18_ObservationsKept ==
    /\ (/\ fn_op \in { "extract_event_details", "cg_extract_event_details" }
        /\ IsJObj(fn_raw)
        /\ ~Raised(fn_out))
          => CarriesObservations(fn_out, fn_raw.obj)
    /\ (fn_op = "create_chronology" /\ IsJObj(fn_raw) /\ ~Raised(fn_out))
          => \A i \in DOMAIN EventsOut : CarriesObservations(EventsOut[i], fn_raw.obj)

\* ---- C19: the rendered table has exactly one header row, exactly one
\* separator row with as many cells as the header, and one data row for each
\* event handed in: a field value of several lines never splits a row.
\* the table text of the call made
TableText == IF fn_op = "format_chronology" THEN fn_out.table ELSE fn_out

\* the lines of a text that ends with a newline
NewlinesIn(text) == { i \in DOMAIN text : text[i] = ChNewline }

NthNewline(text, k) ==
    IF k = 0 THEN 0
    ELSE CHOOSE i \in NewlinesIn(text) :
            Cardinality({ j \in NewlinesIn(text) : j <= i }) = k

LinesOf(text) ==
    [k \in 1..Cardinality(NewlinesIn(text)) |->
        SubSeq(text, NthNewline(text, k - 1) + 1, NthNewline(text, k) - 1)]

CellCount(line) == Cardinality({ i \in DOMAIN line : line[i] = ChPipe }) - 1

IsSeparatorRow(line) ==
    line # << >> /\ \A i \in DOMAIN line : line[i] \in { ChPipe, ChDash }

HeaderRow == SubSeq(RowLine(Headers), 1, Len(RowLine(Headers)) - 1)

C19_OneRowPerEvent ==
    fn_op \in { "generate_chronology_table", "format_chronology" }
        => LET lines == LinesOf(TableText)
           IN /\ Len(lines) = Len(fn_events) + 2
              /\ { i \in DOMAIN lines : lines[i] = HeaderRow } = { 1 }
              /\ { i \in DOMAIN lines : IsSeparatorRow(lines[i]) } = { 2 }
              /\ CellCount(lines[2]) = CellCount(lines[1])

\* ---- C20: the data rows of the table are in the order of the event list
\* handed to generate_chronology_table or format_chronology: the renderer
\* does not sort again.
C20_RowsInGivenOrder ==
    fn_op \in { "generate_chronology_table", "format_chronology" }
        => TableText = RowLine(Headers) \o SeparatorLine(Headers) \o RowLines(fn_events)

\* ---- C21: in a row of the rendered table every field that is missing,
\* null or empty (date, description, parties, source, AI observations) is
\* the literal N/A.
\* the cell the claim gives a str-or-None field
ClaimedCell(event, key) ==
    IF key \notin DOMAIN event \/ event[key] = None \/ event[key] = EmptyStr
    THEN StrNA
    ELSE event[key]

ClaimedRow(event) ==
    << ClaimedCell(event, "date"),
       Flatten(ClaimedCell(event, "description")),
       IF "parties" \notin DOMAIN event \/ event["parties"] = << >>
       THEN StrNA
       ELSE Join(<< ChComma, ChSpace >>, event["parties"]),
       ClaimedCell(event, "source_document"),
       Flatten(ClaimedCell(event, "ai_observations")) >>

RECURSIVE ClaimedRowLines(_, _, _)
ClaimedRowLines(evs, p, i) ==
    IF i > Len(evs) THEN << >>
    ELSE RowLine(ClaimedRow(evs[p[i]])) \o ClaimedRowLines(evs, p, i + 1)

C21_EmptyFieldsAreNA ==
    fn_op \in { "generate_chronology_table", "format_chronology" }
        => \E p \in Perms(Len(fn_events)) :
              TableText = RowLine(Headers) \o SeparatorLine(Headers)
                            \o ClaimedRowLines(fn_events, p, 1)

\* ---- C22: the table has the column AI Observations if and only if some
\* event has a non-empty ai_observations value; otherwise its columns are
\* exactly Date, Description, Parties, Source.
HasObservations(evs) ==
    \E i \in DOMAIN evs :
        /\ "ai_observations" \in DOMAIN evs[i]
        /\ Truthy(evs[i]["ai_observations"])

FourColumnHeader == SubSeq(RowLine(SubSeq(Headers, 1, 4)), 1, Len(RowLine(SubSeq(Headers, 1, 4))) - 1)

C22_ObservationsColumnOptional ==
    fn_op \in { "generate_chronology_table", "format_chronology" }
        => LinesOf(TableText)[1] =
              IF HasObservations(fn_events) THEN HeaderRow ELSE FourColumnHeader

\* ---- C23: format_chronology appends "## Key Observations", "## Timeline
\* Gaps", "## Recommendations" exactly for the analysis categories that are
\* not empty, in that order after the table, each with one bullet per string
\* of the category in the analyzer's order; an empty category leaves nothing.
Categories(analysis) ==
    << [heading |-> "## Key Observations", strings |-> analysis.key_observations],
       [heading |-> "## Timeline Gaps", strings |-> analysis.potential_gaps],
       [heading |-> "## Recommendations", strings |-> analysis.recommendations] >>

C23_SectionsIffNonEmpty ==
    fn_op = "format_chronology"
        => LET cats == Categories(analyze_chronology(fn_events))
               shown == { k \in 1..3 : cats[k].strings # << >> }
           IN /\ Len(fn_out.sections) = Cardinality(shown)
              /\ \A k \in shown :
                    LET at == Cardinality({ j \in shown : j <= k })
                    IN /\ fn_out.sections[at].heading = cats[k].heading
                       /\ fn_out.sections[at].bullets = cats[k].strings

\* observations and a recommendation, no gap: two sections
C23_Witness ==
    /\ fn_op = "format_chronology"
    /\ Len(fn_out.sections) = 2
    /\ fn_out.sections[1].heading = "## Key Observations"
    /\ fn_out.sections[2].heading = "## Recommendations"
    /\ Len(fn_events) = 3

\* ---- C24: the order in which the documents are processed does not matter:
\* with the reasoning step falling back to the accumulated list, the sorted
\* event sequence, the analysis and the rendered markdown are those of the
\* documents processed in list order.
C24_OrderIndependent ==
    (pc = "done" /\ chronology # NoValue)
        => /\ sort_events(chronology.events) = sort_events(Concat(extracted))
           /\ chronology.analysis = analyze_chronology(Concat(extracted))
           /\ markdown_output = format_chronology(Fallback(Concat(extracted)))

\* ---- C25: when no input event has a valid date (the empty list included),
\* the chronology create_chronology returns either carries an 'errors' entry
\* or contains zero events.
C25_UndatedInputReported ==
    (/\ fn_op = "create_chronology"
     /\ ~Raised(fn_out)
     /\ \A i \in DOMAIN fn_events : IsUndated(fn_events[i]))
        => \/ "errors" \in DOMAIN fn_out
           \/ fn_out.events = << >>

\* ---- C26: every event in the list extract_events returns, and in the
\* events of the chronology create_chronology returns, has a date that is
\* null or a string of the fixed form YYYY-MM-DD (4-2-2 digit groups).
IsoForm(d) ==
    /\ Len(d) = 10
    /\ d[5] = ChDash /\ d[8] = ChDash
    /\ \A i \in {1, 2, 3, 4, 6, 7, 9, 10} : IsDigit(d[i])

ReturnedEvents == IF fn_op = "extract_events" THEN fn_out ELSE fn_out.events

IsBlankText(text) == \A j \in DOMAIN text : text[j] = ChSpace

\* the pairs before position n whose text is not blank
NonBlankBefore(n) ==
    Cardinality({ i \in 1..NDocs : i < n /\ ~IsBlankText(documents_text[i]) })

\* an extraction is invoked: for the pair at idx, not blank, every earlier
\* non-blank pair having had its one call answered
ExtractInvoked ==
    pc' = "await_extract" /\ pc # "await_extract"
        => /\ pc = "loop" /\ idx \in 1..NDocs /\ idx' = idx
           /\ ~IsBlankText(documents_text[idx])
           /\ Len(extracted) = NonBlankBefore(idx)

\* the call returns once, and the loop moves past the pair
ExtractionAnswered ==
    /\ Len(extracted') # Len(extracted)
          => pc = "await_extract" /\ Len(extracted') = Len(extracted) + 1
    /\ idx' # idx => idx' = idx + 1 /\ pc' = "loop"

CreateInvoked ==
    pc' = "await_create" /\ pc # "await_create"
        => /\ pc = "loop" /\ idx > NDocs
           /\ Len(extracted) = NonBlankDocs
           /\ all_events # << >>
           /\ chronology = NoValue

\* after the loop is left it is never entered again
LoopLeftForGood ==
    pc \notin { "loop", "await_extract", "extend" }
        => pc' \notin { "loop", "await_extract", "extend", "await_create" }

FormatInvoked ==
    markdown_output' # markdown_output => pc = "format" /\ chronology # NoValue

C27_CallDiscipline ==
    /\ [](pc = "loop" => Len(extracted) = NonBlankBefore(idx))
    /\ [](chronology # NoValue
            => pc \in { "format", "return", "done" } /\ Len(extracted) = NonBlankDocs)
    /\ [][/\ ExtractInvoked
          /\ ExtractionAnswered
          /\ CreateInvoked
          /\ LoopLeftForGood
          /\ FormatInvoked]_vars

C27_Witness ==
    /\ pc = "done"
    /\ response.status_code = 200
    /\ NDocs = 2
    /\ IsBlankText(documents_text[1])
    /\ Len(extracted) = 1
    /\ chronology # NoValue
    /\ markdown_output # NoValue

\* ---- C28: when the general parser and every explicit format fail,
\* standardize_date's fallback scans the digit runs of the string, takes a
\* 4-digit run in [1900,2100] as the year, a remaining run in [1,12] as the
\* month and a remaining run in [1,31] as the day, and returns the zero-padded
\* YYYY-MM-DD string only if all three were found, otherwise null.
\* the maximal runs of digits of s, in order
RECURSIVE DigitRunsFrom(_, _)
DigitRunsFrom(s, cur) ==
    IF s = << >> THEN (IF cur = << >> THEN << >> ELSE << cur >>)
    ELSE IF IsDigit(Head(s)) THEN DigitRunsFrom(Tail(s), Append(cur, Head(s)))
    ELSE (IF cur = << >> THEN << >> ELSE << cur >>) \o DigitRunsFrom(Tail(s), << >>)

\* one run takes at most one role, the first it fits and that is still open
ClaimedRole(run, ymd) ==
    LET num == Num(run, 1, Len(run)) IN
    IF ymd.year = 0 /\ Len(run) = 4 /\ num >= 1900 /\ num <= 2100
    THEN [ymd EXCEPT !.year = num]
    ELSE IF ymd.month = 0 /\ Len(run) <= 2 /\ num >= 1 /\ num <= 12
    THEN [ymd EXCEPT !.month = num]
    ELSE IF ymd.day = 0 /\ Len(run) <= 2 /\ num >= 1 /\ num <= 31
    THEN [ymd EXCEPT !.day = num]
    ELSE ymd

RECURSIVE ClaimedRoles(_, _)
ClaimedRoles(runs, ymd) ==
    IF runs = << >> THEN ymd ELSE ClaimedRoles(Tail(runs), ClaimedRole(Head(runs), ymd))

ClaimedFallback(s) ==
    LET ymd == ClaimedRoles(DigitRunsFrom(s, << >>), [year |-> 0, month |-> 0, day |-> 0])
    IN  IF ymd.year # 0 /\ ymd.month # 0 /\ ymd.day # 0
        THEN Pad4(ymd.year) \o << ChDash >> \o Pad2(ymd.month) \o << ChDash >> \o Pad2(ymd.day)
        ELSE None

\* the date text reaches the fallback: no short circuit, the parser finds
\* nothing and no format reads it
ReachesFallback(value) ==
    /\ IsJObj(value)
    /\ "date" \in DOMAIN value.obj
    /\ IsJStr(value.obj["date"])
    /\ ~ShortCircuits(value.obj["date"])
    /\ "none" \in DOMAIN dateparser_parse(Strip(value.obj["date"].str))
    /\ \A i \in DOMAIN Formats(Strip(value.obj["date"].str)) :
          Raised(Formats(Strip(value.obj["date"].str))[i])

C28_FallbackReadsDigitRuns ==
    (/\ fn_op = "cg_extract_event_details"
     /\ ~Raised(fn_out)
     /\ ReachesFallback(fn_raw))
        => fn_out["date"] = ClaimedFallback(Strip(fn_raw.obj["date"].str))

\* ---- C29: generate_chronology returns as 'events' exactly the normalized
\* input events whose date is non-null, in sort_events order; its 'errors'
\* list is non-empty if and only if an input event was dropped for a null
\* date; 'analysis' and 'markdown_table' are computed from the retained
\* events only.
Retained(normalized) == SelectSeq(normalized, LAMBDA e : e["date"] # None)

C29_GenerateKeepsDated ==
    (fn_op = "generate_chronology" /\ ~Raised(fn_out))
        => \E first \in cg_extract_event_details(LaterRecord),
              second \in cg_extract_event_details(fn_raw) :
              /\ ~Raised(first) /\ ~Raised(second)
              /\ fn_out.events = sort_events(Retained(<< first, second >>))
              /\ (fn_out.errors # << >>)
                    <=> (Len(Retained(<< first, second >>)) < 2)
              /\ fn_out.analysis = analyze_chronology(Retained(<< first, second >>))
              /\ fn_out.markdown_table
                    = generate_chronology_table(Retained(<< first, second >>))

\* the record is dated, both events are kept and the record's comes first
C29_Witness ==
    /\ fn_op = "generate_chronology"
    /\ ~Raised(fn_out)
    /\ Len(fn_out.events) = 2
    /\ fn_out.events[2]["date"] = Day32
    /\ fn_out.events[1]["date"] = Day1
    /\ fn_out.errors = << >>

\* the record has no date and is dropped
C29_WitnessDropped ==
    /\ fn_op = "generate_chronology"
    /\ ~Raised(fn_out)
    /\ Len(fn_out.events) = 1
    /\ fn_out.errors # << >>

\* ---- C30: the events field of the ChronologyResponse is the accumulated
\* pre-reasoning list, the concatenation in document order of the lists
\* extract_events returned, whatever the reasoning step returns; neither
\* create_chronology nor format_chronology changes the accumulated list.
C30_ResponseIsAccumulated ==
    /\ []((pc = "done" /\ response.status_code = 200)
            => /\ response.events = Concat(extracted)
               /\ response.events = all_events)
    /\ [][(pc \in { "await_create", "format", "return" }) => (all_events' = all_events)]_vars

C30_Witness ==
    /\ pc = "done"
    /\ response.status_code = 200
    /\ Len(extracted) = 2
    /\ extracted[1] # << >> /\ extracted[2] # << >>
    /\ chronology.events # all_events
    /\ response.events = extracted[1] \o extracted[2]

====
